---------------------------- MODULE Spec2Model ----------------------------
(***************************************************************************)
(* Exchange adapters (Poloniex: src/unnamed/part_000, Binance:             *)
(* src/exchange/wrappers/binance.js): classification of raw call outcomes, *)
(* the retry loop they run their requests under, and the reconciliation of *)
(* order placement, order status and cancellation.                         *)
(*                                                                         *)
(* A message is a sequence of tokens; `str.includes(item)` is a search for *)
(* a contiguous run of tokens.  Tokens are cut so that one signature is a  *)
(* substring of another exactly when its token sequence is a contiguous    *)
(* run of the other's ('ETIMEDOUT' = E.TIMEDOUT holds 'TIMEDOUT';          *)
(* 'ESOCKETTIMEDOUT' = E.SOCKET.TIMEDOUT does not hold 'ETIMEDOUT').       *)
(***************************************************************************)
EXTENDS Integers, Sequences, FiniteSets, Bags, TLC

(***************************************************************************)
(* Bounds of the model.                                                    *)
(***************************************************************************)
\* attempts of a retry run under the default policy (retry(null, ...))
DefaultRetries == 3
\* attempts explored of a run under the unlimited policy
MaxForever == 3
\* calls the strategy makes one after the other
MaxCalls == 1
\* orders the exchange can hold
MaxOrders == 3

(***************************************************************************)
(* Messages.                                                               *)
(***************************************************************************)
NoMsg == << >>

Contains(str, item) ==
  \E i \in 1..(Len(str) - Len(item) + 1) : SubSeq(str, i, i + Len(item) - 1) = item

\* (const includes = (str, list) => ...) on a string; isStr is _.isString(str)
includes(isStr, str, list) ==
  IF ~isStr THEN FALSE ELSE \E item \in list : Contains(str, item)

recoverableErrors ==
  { <<"SOCKET", "TIMEDOUT">>, <<"TIMEDOUT">>, <<"CONNRESET">>, <<"CONNREFUSED">>,
    <<"NOTFOUND">>, <<"429">>, <<"5", "22">>, <<"5", "04">>, <<"5", "03">>,
    <<"5", "00">>, <<"5", "02">>, <<"Empty response">>,
    <<"Please try again in a few minutes.">>, <<"Nonce must be greater than">> }

unknownResultErrors == { <<"E", "TIMEDOUT">> }

SecurityCheck == <<"Please complete the security check to proceed.">>
TryAgain == <<"Please try again in a few minutes.">>
Doctype == <<"<!DOCTYPE html>">>
CloudFlareMsg ==
  <<"Your IP has been flagged by CloudFlare. As such Gekko Broker cannot access Poloniex.">>
OrderNotFound == <<"Order not found, or you are not the person who placed it.">>
InvalidOrder ==
  <<"Invalid order number, or you are not the person who placed the order.">>


(***************************************************************************)
(* Values.  An error object, a response body, a callback value: records    *)
(* with one shape each, the absent fields at their defaults.               *)
(***************************************************************************)
NoError == [present |-> FALSE, msg |-> NoMsg, notFatal |-> FALSE, kind |-> "none"]

\* new Error(message)
NewError(message) ==
  [present |-> TRUE, msg |-> message, notFatal |-> FALSE, kind |-> "Error"]

\* the largest balance an account holds
MaxBalance == 2

\* a balance as the exchange reports it: the text of a number, a text that is
\* no number, or no entry at all
Numeric(n) == [k |-> "numeric", v |-> n]
Text == [k |-> "text", v |-> 0]
Absent == [k |-> "absent", v |-> 0]
Reported == {Numeric(n) : n \in 0..MaxBalance} \cup {Text, Absent}

\* parseFloat of a reported balance: the number, or NaN (also for undefined)
parseFloat(r) ==
  IF r.k = "numeric" THEN [nan |-> FALSE, v |-> r.v] ELSE [nan |-> TRUE, v |-> 0]

NoBalances == [asset |-> Absent, currency |-> Absent]

\* a body that is undefined (or otherwise falsy)
Undef ==
  [t |-> "undef", error |-> NoMsg, text |-> NoMsg, orderNumber |-> 0,
   success |-> 0, orders |-> << >>, trades |-> << >>, unfilled |-> FALSE,
   filled |-> FALSE, code |-> "", msg |-> NoMsg, orderId |-> 0, status |-> "",
   executedQty |-> 0, balances |-> NoBalances]

\* a body that is an object without fields, the fields set with EXCEPT
Obj == [Undef EXCEPT !.t = "obj"]

\* a body that is a string (an HTML page)
Str(text) == [Undef EXCEPT !.t = "str", !.text = text]

\* the value the caller's callback receives, by operation
NoValue ==
  [id |-> 0, filled |-> FALSE, executed |-> FALSE, open |-> FALSE,
   hasFilledAmount |-> FALSE, filledAmount |-> 0,
   price |-> <<0, 1>>, amount |-> 0, date |-> 0, portfolio |-> << >>]

\* the portfolio getPortfolio hands to its callback
Portfolio(assetAmount, currencyAmount) ==
  << [name |-> "asset", amount |-> assetAmount],
     [name |-> "currency", amount |-> currencyAmount] >>

(***************************************************************************)
(* Poloniex: processResponse(next, fn) applied to (err, data).  The result *)
(* is what next receives, or reconcile = TRUE when the handler returns     *)
(* without calling next and leaves the look-up timer behind (fn 'order',   *)
(* unknown result).                                                        *)
(***************************************************************************)
\* a variant of lines 55-76 that tests for an HTML page before the challenge
InitialErrorPageFirst(err, data) ==
  IF err # NoMsg THEN [error |-> NewError(err), data |-> data]
  ELSE IF data.t = "undef"
    THEN [error |-> NewError(<<"Empty response">>), data |-> data]
  ELSE IF data.error # NoMsg THEN [error |-> NewError(data.error), data |-> data]
  ELSE IF includes(data.t = "str", data.text, {Doctype})
    THEN [error |-> NewError(data.text), data |-> Undef]
  ELSE IF includes(data.t = "str", data.text, {SecurityCheck})
    THEN [error |-> NewError(CloudFlareMsg), data |-> Undef]
  ELSE IF includes(data.t = "str", data.text, {TryAgain})
    THEN [error |-> [NewError(TryAgain) EXCEPT !.notFatal = TRUE], data |-> Undef]
  ELSE [error |-> NoError, data |-> data]

\* lines 55-76: the error and body after the if/else-if chain
InitialError(err, data) ==
  IF err # NoMsg THEN [error |-> NewError(err), data |-> data]
  ELSE IF data.t = "undef"
    THEN [error |-> NewError(<<"Empty response">>), data |-> data]
  ELSE IF data.error # NoMsg THEN [error |-> NewError(data.error), data |-> data]
  ELSE IF includes(data.t = "str", data.text, {SecurityCheck})
    THEN [error |-> NewError(CloudFlareMsg), data |-> Undef]
  ELSE IF includes(data.t = "str", data.text, {TryAgain})
    THEN [error |-> [NewError(TryAgain) EXCEPT !.notFatal = TRUE], data |-> Undef]
  ELSE IF includes(data.t = "str", data.text, {Doctype})
    THEN [error |-> NewError(data.text), data |-> Undef]
  ELSE [error |-> NoError, data |-> data]

\* a variant of lines 80-82 that marks every error notFatal
MarkRecoverableAlways(error) == [error EXCEPT !.notFatal = TRUE]

\* lines 80-82
MarkRecoverable(error) ==
  IF includes(TRUE, error.msg, recoverableErrors)
    THEN [error EXCEPT !.notFatal = TRUE]
    ELSE error

\* a variant of lines 84-90 that clears the error and keeps the body
GetOrderOverrideKeepsBody(fn, r) ==
  IF fn = "getOrder" /\ Contains(r.error.msg, OrderNotFound)
    THEN [error |-> NoError, data |-> r.data]
    ELSE r

\* a variant of lines 92-98 that leaves an error marked notFatal as it is
CancelOrderOverrideUnlessRecoverable(fn, r) ==
  IF fn = "cancelOrder" /\ ~r.error.notFatal /\ Contains(r.error.msg, InvalidOrder)
    THEN [error |-> NoError, data |-> [Obj EXCEPT !.filled = TRUE]]
    ELSE r

\* lines 84-90
GetOrderOverride(fn, r) ==
  IF fn = "getOrder" /\ Contains(r.error.msg, OrderNotFound)
    THEN [error |-> NoError, data |-> [Obj EXCEPT !.unfilled = TRUE]]
    ELSE r

\* lines 92-98 (error is still defined here whenever fn is 'cancelOrder')
CancelOrderOverride(fn, r) ==
  IF fn = "cancelOrder" /\ Contains(r.error.msg, InvalidOrder)
    THEN [error |-> NoError, data |-> [Obj EXCEPT !.filled = TRUE]]
    ELSE r

\* lines 100-115
UnknownResult(fn, error) ==
  fn = "order" /\ includes(TRUE, error.msg, unknownResultErrors)

processResponse(fn, err, data) ==
  LET r0 == InitialError(err, data)
  IN IF ~r0.error.present
       THEN [error |-> NoError, data |-> r0.data, reconcile |-> FALSE]
       ELSE LET r1 == [r0 EXCEPT !.error = MarkRecoverable(r0.error)]
                r2 == GetOrderOverride(fn, r1)
                r3 == CancelOrderOverride(fn, r2)
            IN IF UnknownResult(fn, r3.error)
                 THEN [error |-> r3.error, data |-> r3.data, reconcile |-> TRUE]
                 ELSE [error |-> r3.error, data |-> r3.data, reconcile |-> FALSE]


(***************************************************************************)
(* Retry policies.  retry(options, fn, callback) of ../exchangeUtils runs  *)
(* fn under the policy; a null policy is its default, bounded one.         *)
(***************************************************************************)
RetryCriticalRetries == 10

retryCritical == [forever |-> FALSE, retries |-> RetryCriticalRetries]

retryForever == [forever |-> TRUE, retries |-> 0]

DefaultPolicy == [forever |-> FALSE, retries |-> DefaultRetries]

(***************************************************************************)
(* State.                                                                  *)
(***************************************************************************)
VARIABLES
  adapter,   \* "poloniex" | "binance" | "none": the adapter of the running call
  op,        \* the operation of the running call
  arg,       \* the order id the call is about (checkOrder, getOrder, cancelOrder)
  attempts,  \* attempts the call's retry run has started or scheduled
  tasks,     \* bag of what the event loop holds: timers and requests in flight
  cb,        \* the caller's callback: times invoked, last (err, value)
  crashed,   \* an exception left a response handler
  orders,    \* the exchange: id -> order
  ncalls,    \* calls started so far
  sent,      \* requests of the call's own operation sent to the exchange
  created,   \* orders created at the exchange by the running call
  lastRaw,   \* the last raw response the call's own operation received
  lookup,    \* what the last answer to the call's placement look-up held
  handled,   \* the callback given to retry: times invoked, last (err, data)
  transient, \* answers to the call's own requests that were transient failures
  prev,      \* the call before the running one: what it was and what it returned
  rounded,   \* the last roundAmount / roundPrice: its input and its result
  runs       \* operations in flight side by side: slot -> the state of its run

vars ==
  <<adapter, op, arg, attempts, tasks, cb, crashed, orders, ncalls, sent,
    created, lastRaw, lookup, handled, transient, prev, rounded, runs>>

Adapters == {"poloniex", "binance"}
Ops == {"buy", "sell", "checkOrder", "getOrder", "cancelOrder"}
Ids == 1..MaxOrders

\* amount of every order placed, and the rates it can trade at
StartAmount == 2
Rates == {10, 20}

NoOrder == [st |-> "none", recent |-> FALSE, by |-> 0, rem |-> 0, trades |-> << >>]

Task(k, n, e) == [k |-> k, n |-> n, e |-> e]
Timer == Task("timer", 0, NoError)
Req == Task("req", 0, NoError)

Add(bag, t) == bag (+) SetToBag({t})
Remove(bag, t) == bag (-) SetToBag({t})

NoRaw == [err |-> NoMsg, data |-> Undef, any |-> FALSE]
Raw(err, data) == [err |-> err, data |-> data, any |-> TRUE]

\* no look-up answered yet
NoLookup == [answered |-> FALSE, failed |-> FALSE, listed |-> 0, recent |-> 0]

\* what a look-up's answer held: whether it failed, how many open orders it
\* listed, and the first listed order dated within the last 2 minutes (0: none)
Observed(raw) ==
  LET l == raw.data.orders
      first == {i \in 1..Len(l) : l[i].recent /\ \A j \in 1..(i - 1) : ~l[j].recent}
  IN [answered |-> TRUE,
      failed |-> raw.err # NoMsg \/ raw.data.t # "obj" \/ raw.data.error # NoMsg,
      listed |-> Len(l),
      recent |-> IF first = {} THEN 0 ELSE l[CHOOSE i \in first : TRUE].orderNumber]

NoCallback == [n |-> 0, err |-> NoError, val |-> NoValue]

NoHandled == [n |-> 0, err |-> NoError, data |-> Undef]

\* the part of the state a response handler works on
Local ==
  [attempts |-> attempts, tasks |-> tasks, cb |-> cb, crashed |-> crashed,
   handled |-> handled]

\* callback(err, value) of the caller
Callback(st, err, val) ==
  [st EXCEPT !.cb = [n |-> @.n + 1, err |-> err, val |-> val]]

\* an exception leaves the handler: the process ends with its timers and requests
Throw(st) == [st EXCEPT !.crashed = TRUE, !.tasks = EmptyBag]

(***************************************************************************)
(* Poloniex: the callbacks (handle) the operations give to retry.          *)
(***************************************************************************)
\* buy / sell, lines 213-219 and 226-232
PoloniexOrderHandle(st, err, result) ==
  IF err.present THEN Callback(st, err, NoValue)
  ELSE Callback(st, NoError, [NoValue EXCEPT !.id = result.orderNumber])

\* a variant of the _.find of line 249 that takes the first order listed
FindOrderAny(list, id) == IF Len(list) > 0 THEN 1 ELSE 0

\* a variant of the _.find of line 249 that looks at the last order listed only
FindOrderAtEnd(list, id) ==
  IF Len(list) > 0 /\ list[Len(list)].orderNumber = id THEN Len(list) ELSE 0

\* _.find(result, o => o.orderNumber === id): index of the first match, 0 if none
FindOrder(list, id) ==
  IF \E i \in 1..Len(list) : list[i].orderNumber = id
    THEN CHOOSE i \in 1..Len(list) :
           /\ list[i].orderNumber = id
           /\ \A j \in 1..(i - 1) : list[j].orderNumber # id
    ELSE 0

\* a variant of lines 239-256 that reports the amount left as filledAmount
PoloniexCheckHandleAmountLeft(st, id, err, result) ==
  IF err.present THEN Callback(st, err, NoValue)
  ELSE LET i == FindOrder(result.orders, id)
       IN IF i = 0
            THEN Callback(st, NoError, [NoValue EXCEPT !.executed = TRUE, !.open = FALSE])
            ELSE Callback(st, NoError,
                   [NoValue EXCEPT !.executed = FALSE, !.open = TRUE,
                      !.hasFilledAmount = TRUE,
                      !.filledAmount = result.orders[i].amount])

\* checkOrder, lines 239-256 (no response carries a completed field)
PoloniexCheckHandle(st, id, err, result) ==
  IF err.present THEN Callback(st, err, NoValue)
  ELSE LET i == FindOrder(result.orders, id)
       IN IF i = 0
            THEN Callback(st, NoError, [NoValue EXCEPT !.executed = TRUE, !.open = FALSE])
            ELSE Callback(st, NoError,
                   [NoValue EXCEPT !.executed = FALSE, !.open = TRUE,
                      !.hasFilledAmount = TRUE,
                      !.filledAmount =
                         result.orders[i].startingAmount - result.orders[i].amount])

RECURSIVE Gcd(_, _)
Gcd(a, b) == IF b = 0 THEN a ELSE Gcd(b, a % b)

\* the fraction n/d in lowest terms (d > 0)
Frac(n, d) == LET g == Gcd(n, d) IN IF g = 0 THEN <<0, 1>> ELSE <<n \div g, d \div g>>

\* a variant of lines 275-279 that averages the rates without the amounts
RECURSIVE ReduceUnweighted(_, _, _)
ReduceUnweighted(trades, k, acc) ==
  IF k > Len(trades) THEN acc
  ELSE LET trade == trades[k]
           num == acc.price[1] * (k - 1) + trade.rate * acc.price[2]
           den == acc.price[2] * k
       IN ReduceUnweighted(trades, k + 1,
                 [price |-> Frac(num, den), amount |-> acc.amount + trade.amount,
                  date |-> trade.date])

\* lines 275-279: the running reduction over the trades, from the k-th on
RECURSIVE Reduce(_, _, _)
Reduce(trades, k, acc) ==
  IF k > Len(trades) THEN acc
  ELSE LET trade == trades[k]
           \* ((price * amount) + (rate * trade.amount)) / (trade.amount + amount)
           num == acc.price[1] * acc.amount + trade.rate * trade.amount * acc.price[2]
           den == acc.price[2] * (trade.amount + acc.amount)
       IN Reduce(trades, k + 1,
                 [price |-> Frac(num, den), amount |-> acc.amount + trade.amount,
                  date |-> trade.date])

\* getOrder, lines 263-281
PoloniexGetOrderHandle(st, err, result) ==
  IF err.present THEN Callback(st, err, NoValue)
  ELSE IF result.unfilled THEN Callback(st, NoError, NoValue)
  ELSE LET r == Reduce(result.trades, 1, [price |-> <<0, 1>>, amount |-> 0, date |-> 0])
       IN Callback(st, NoError,
                   [NoValue EXCEPT !.price = r.price, !.amount = r.amount, !.date = r.date])

\* cancelOrder, lines 289-303
PoloniexCancelHandle(st, err, result) ==
  IF err.present THEN Callback(st, err, NoValue)
  ELSE IF result.filled THEN Callback(st, NoError, [NoValue EXCEPT !.filled = TRUE])
  ELSE IF result.success = 0 THEN Callback(st, NoError, [NoValue EXCEPT !.filled = FALSE])
  ELSE Callback(st, NoError, [NoValue EXCEPT !.filled = FALSE])

\* getPortfolio, lines 146-167: one amount that is no number zeroes both
PoloniexPortfolioHandle(st, err, data) ==
  IF err.present THEN Callback(st, err, NoValue)
  ELSE LET assetAmount == parseFloat(data.balances.asset)
           currencyAmount == parseFloat(data.balances.currency)
           reset == assetAmount.nan \/ currencyAmount.nan
       IN Callback(st, NoError,
            [NoValue EXCEPT !.portfolio =
               Portfolio(IF reset THEN 0 ELSE assetAmount.v,
                         IF reset THEN 0 ELSE currencyAmount.v)])

PoloniexHandle(st, o, id, err, result) ==
  CASE o \in {"buy", "sell"} -> PoloniexOrderHandle(st, err, result)
    [] o = "checkOrder" -> PoloniexCheckHandle(st, id, err, result)
    [] o = "getOrder" -> PoloniexGetOrderHandle(st, err, result)
    [] o = "cancelOrder" -> PoloniexCancelHandle(st, err, result)
    \* getTrades, line 314: the run is the one of this.sell(error, data), whose
    \* third argument, callback, is undefined: callback(...) is a TypeError
    [] o = "getTrades" -> Throw(st)
    [] o = "getPortfolio" -> PoloniexPortfolioHandle(st, err, result)

\* the fn the operation gives to processResponse
PoloniexFn(o) ==
  CASE o \in {"buy", "sell"} -> "order"
    [] o = "checkOrder" -> "none"
    [] o = "getOrder" -> "getOrder"
    [] o = "cancelOrder" -> "cancelOrder"
    \* the requests of the sell that getTrades calls, line 234
    [] o = "getTrades" -> "order"
    [] o = "getPortfolio" -> "none"


(***************************************************************************)
(* Binance: processError, handleResponse and the callbacks.                *)
(***************************************************************************)
\* an error object that carries no message
NoMessage == <<"">>

BinanceRecoverableErrors ==
  { <<"SOCKET", "TIMEDOUT">>, <<"TIMEDOUT">>, <<"CONNRESET">>, <<"CONNREFUSED">>,
    <<"NOTFOUND">>, <<"Error ", "-1021">>, <<"Response code ", "429">>,
    <<"Response code ", "5">> }

\* a variant of lines 53-61 that aborts on every error
processErrorAborts(funcName, error) ==
  IF error = NoMsg THEN NoError
  ELSE [NewError(<<"[binance.js] ">> \o error) EXCEPT !.kind = "AbortError"]

\* lines 53-61; error is the message of the error object, NoMsg when there is none
processError(funcName, error) ==
  IF error = NoMsg THEN NoError
  ELSE IF error = NoMessage \/ ~includes(TRUE, error, BinanceRecoverableErrors)
    THEN [NewError(<<"[binance.js] ">> \o error) EXCEPT !.kind = "AbortError"]
  ELSE [NewError(<<"[binance.js] ">> \o error) EXCEPT !.kind = "RetryError"]

\* a variant of lines 63-71 that hands on the error without the body
handleResponseDropsBody(funcName, error, body) ==
  LET error1 == IF body.t # "undef" /\ body.code # ""
                  THEN <<"Error ", body.code, ": ">> \o body.msg
                  ELSE error
  IN [error |-> processError(funcName, error1), data |-> Undef]

\* lines 63-71
handleResponse(funcName, error, body) ==
  LET error1 == IF body.t # "undef" /\ body.code # ""
                  THEN <<"Error ", body.code, ": ">> \o body.msg
                  ELSE error
  IN [error |-> processError(funcName, error1), data |-> body]

\* addOrder, lines 209-215
BinanceSetOrder(st, err, data) ==
  IF err.present THEN Callback(st, err, NoValue)
  \* data.orderId of an undefined body: a TypeError
  ELSE IF data.t = "undef" THEN Throw(st)
  ELSE Callback(st, NoError, [NoValue EXCEPT !.id = data.orderId])

\* _.find(data, t => t.orderId == order): index of the first match, 0 if none
FindTrade(list, order) ==
  IF \E i \in 1..Len(list) : list[i].orderId = order
    THEN CHOOSE i \in 1..Len(list) :
           /\ list[i].orderId = order
           /\ \A j \in 1..(i - 1) : list[j].orderId # order
    ELSE 0

\* getOrder, lines 232-256
BinanceGet(st, order, err, data) ==
  IF err.present THEN Callback(st, err, NoValue)
  ELSE LET i == FindTrade(data.trades, order)
       IN IF i = 0
            THEN Callback(st, NewError(<<"Trade not found">>), NoValue)
            ELSE Callback(st, NoError,
                   [NoValue EXCEPT !.price = <<data.trades[i].rate, 1>>,
                      !.amount = data.trades[i].amount, !.date = data.trades[i].date])

\* a variant of lines 278-302 that reports a new order without a filledAmount
BinanceCheckNoAmount(st, err, data) ==
  IF err.present THEN Callback(st, err, NoValue)
  ELSE IF data.t = "undef" THEN Throw(st)
  ELSE IF data.status \in {"CANCELED", "REJECTED", "EXPIRED"}
    THEN Callback(st, NoError, [NoValue EXCEPT !.executed = FALSE, !.open = FALSE])
  ELSE IF data.status = "NEW"
    THEN Callback(st, NoError, [NoValue EXCEPT !.executed = FALSE, !.open = TRUE])
  ELSE IF data.status = "PARTIALLY_FILLED"
    THEN Callback(st, NoError,
           [NoValue EXCEPT !.executed = FALSE, !.open = TRUE,
              !.hasFilledAmount = TRUE, !.filledAmount = data.executedQty])
  ELSE IF data.status = "FILLED"
    THEN Callback(st, NoError, [NoValue EXCEPT !.executed = TRUE, !.open = FALSE])
  ELSE Throw(st)

\* checkOrder, lines 278-302
BinanceCheck(st, err, data) ==
  IF err.present THEN Callback(st, err, NoValue)
  \* data.status of an undefined body: a TypeError
  ELSE IF data.t = "undef" THEN Throw(st)
  ELSE IF data.status \in {"CANCELED", "REJECTED", "EXPIRED"}
    THEN Callback(st, NoError, [NoValue EXCEPT !.executed = FALSE, !.open = FALSE])
  ELSE IF data.status \in {"NEW", "PARTIALLY_FILLED"}
    THEN Callback(st, NoError,
           [NoValue EXCEPT !.executed = FALSE, !.open = TRUE,
              !.hasFilledAmount = TRUE, !.filledAmount = data.executedQty])
  ELSE IF data.status = "FILLED"
    THEN Callback(st, NoError, [NoValue EXCEPT !.executed = TRUE, !.open = FALSE])
  ELSE Throw(st)

\* getTrades, lines 74-92 (processResults); the list of the market's trades it
\* hands on is not followed, _.each of an undefined body gives the empty list
BinanceTrades(st, err, data) ==
  IF err.present THEN Callback(st, err, NoValue)
  ELSE Callback(st, NoError, NoValue)

\* a variant of lines 315-323 that hands every error to the caller
BinanceCancelKeepsError(st, err, data) ==
  IF err.present THEN Callback(st, err, NoValue)
  ELSE Callback(st, NoError, [NoValue EXCEPT !.filled = FALSE])

\* cancelOrder, lines 315-323
BinanceCancel(st, err, data) ==
  IF err.present
    THEN IF data.t # "undef" /\ data.msg = <<"UNKNOWN_ORDER">>
           THEN Callback(st, NoError, [NoValue EXCEPT !.filled = TRUE])
           ELSE Callback(st, err, NoValue)
    ELSE Callback(st, NoError, [NoValue EXCEPT !.filled = FALSE])

\* getPortfolio, lines 114-137 (setBalance): data.balances of an undefined
\* body and .free of an entry _.find did not find are TypeErrors; the amounts
\* are declared const, so the assignment of 0 to one that is no number is a
\* TypeError as well
BinancePortfolio(st, err, data) ==
  IF err.present THEN Callback(st, err, NoValue)
  ELSE IF data.t = "undef" THEN Throw(st)
  ELSE IF data.balances.asset.k = "absent" THEN Throw(st)
  ELSE IF data.balances.currency.k = "absent" THEN Throw(st)
  ELSE LET assetAmount == parseFloat(data.balances.asset)
           currencyAmount == parseFloat(data.balances.currency)
       IN IF assetAmount.nan THEN Throw(st)
          ELSE IF currencyAmount.nan THEN Throw(st)
          ELSE Callback(st, NoError,
                 [NoValue EXCEPT !.portfolio =
                    Portfolio(assetAmount.v, currencyAmount.v)])

BinanceHandle(st, o, id, err, data) ==
  CASE o \in {"buy", "sell"} -> BinanceSetOrder(st, err, data)
    [] o = "checkOrder" -> BinanceCheck(st, err, data)
    [] o = "getOrder" -> BinanceGet(st, id, err, data)
    [] o = "cancelOrder" -> BinanceCancel(st, err, data)
    [] o = "getTrades" -> BinanceTrades(st, err, data)
    [] o = "getPortfolio" -> BinancePortfolio(st, err, data)

\* the policy each operation hands to retry
BinancePolicy(o) ==
  IF o \in {"cancelOrder", "getTrades", "getPortfolio"} THEN retryForever
  ELSE retryCritical

(***************************************************************************)
(* The retry run (retry of ../exchangeUtils): what the continuation next   *)
(* of one attempt does with (error, data).                                 *)
(***************************************************************************)
Policy(a, o) == IF a = "poloniex" THEN DefaultPolicy ELSE BinancePolicy(o)

\* the run ends: it invokes the callback it was given with (err, data)
Handle(st, a, o, id, err, data) ==
  LET st1 == [st EXCEPT !.handled = [n |-> @.n + 1, err |-> err, data |-> data]]
  IN IF a = "poloniex" THEN PoloniexHandle(st1, o, id, err, data)
     ELSE BinanceHandle(st1, o, id, err, data)

\* an error the run retries: Poloniex marks it notFatal, Binance wraps it
Retryable(error) == error.notFatal \/ error.kind = "RetryError"

\* attempts left under the policy
MayRetry(policy, n) == policy.forever \/ n < policy.retries

RetryNext(st, a, o, id, error, data) ==
  IF ~error.present THEN Handle(st, a, o, id, NoError, data)
  ELSE IF Retryable(error) /\ MayRetry(Policy(a, o), st.attempts)
    THEN [st EXCEPT !.attempts = @ + 1, !.tasks = Add(@, Timer)]
  ELSE Handle(st, a, o, id, error, data)

(***************************************************************************)
(* Poloniex: findLastTrade(2, callback) as processResponse starts it for   *)
(* an order whose result is unknown, lines 103-112 and 122-143.            *)
(***************************************************************************)
\* _.find(result, o => moment.utc(o.date) > threshold): index of the first
\* order dated within the last `since` minutes, 0 if none
FindRecent(list) ==
  IF \E i \in 1..Len(list) : list[i].recent
    THEN CHOOSE i \in 1..Len(list) :
           list[i].recent /\ \A j \in 1..(i - 1) : ~list[j].recent
    ELSE 0

\* lines 104-110: the callback processResponse gives to findLastTrade; error is
\* the error of the placement attempt; found is the index in list, 0 for undefined
LastTradeCallback(st, a, o, id, error, list, found) ==
  IF found # 0
    THEN RetryNext(st, a, o, id, NoError,
                   [Obj EXCEPT !.orderNumber = list[found].orderNumber])
    ELSE RetryNext(st, a, o, id, error, Undef)

\* a variant of lines 123-140 that reports a failed look-up as no order found
FindLastTradeHandleErrorIsNone(st, a, o, id, error, err, result) ==
  IF err.present THEN LastTradeCallback(st, a, o, id, error, << >>, 0)
  ELSE LET list == result.orders
           st1 == IF Len(list) = 0
                    THEN LastTradeCallback(st, a, o, id, error, list, 0)
                    ELSE st
       IN LastTradeCallback(st1, a, o, id, error, list, FindRecent(list))

\* lines 123-140: handle(err, result) of findLastTrade; `next` is not defined
\* in its scope, so the err branch throws a ReferenceError
FindLastTradeHandle(st, a, o, id, error, err, result) ==
  IF err.present THEN Throw(st)
  ELSE LET list == result.orders
           st1 == IF Len(list) = 0
                    THEN LastTradeCallback(st, a, o, id, error, list, 0)
                    ELSE st
       IN LastTradeCallback(st1, a, o, id, error, list, FindRecent(list))


\* retry(null, fetch, handle) of findLastTrade: the continuation of its n-th
\* attempt, the fetch going through processResponse(next) without fn
LookupNext(st, a, o, id, error, n, err, data) ==
  LET pr == processResponse("none", err, data)
  IN IF ~pr.error.present
       THEN FindLastTradeHandle(st, a, o, id, error, NoError, pr.data)
     ELSE IF Retryable(pr.error) /\ MayRetry(DefaultPolicy, n)
       THEN [st EXCEPT !.tasks = Add(@, Task("lookupTimer", n + 1, error))]
     ELSE FindLastTradeHandle(st, a, o, id, error, pr.error, pr.data)

(***************************************************************************)
(* The exchange: what it holds and what it may answer.                     *)
(***************************************************************************)
OpenIds == {i \in Ids : orders[i].st = "open"}

RECURSIVE Listed(_, _)
\* the ids of a set as a list, ascending or descending
Listed(ids, asc) ==
  IF ids = {} THEN << >>
  ELSE LET i == IF asc THEN CHOOSE x \in ids : \A y \in ids : x <= y
                 ELSE CHOOSE x \in ids : \A y \in ids : x >= y
       IN <<i>> \o Listed(ids \ {i}, asc)

\* one open order as returnOpenOrders / myOpenOrders report it
OpenOrder(i) ==
  [orderNumber |-> i, recent |-> orders[i].recent,
   startingAmount |-> StartAmount, amount |-> orders[i].rem]

OpenOrders(asc) ==
  LET l == Listed(OpenIds, asc) IN [k \in 1..Len(l) |-> OpenOrder(l[k])]

RECURSIVE AllTrades(_)
\* the trades of the account on the pair, by order
AllTrades(l) ==
  IF l = << >> THEN << >> ELSE orders[Head(l)].trades \o AllTrades(Tail(l))

NetworkErrors == { <<"E", "TIMEDOUT">>, <<"E", "SOCKET", "TIMEDOUT">> }

\* answers of Poloniex that fail whatever the request was
PoloniexFailures ==
  { Raw(NoMsg, Undef),
    Raw(NoMsg, [Obj EXCEPT !.error = <<"Not enough BTC.">>]),
    Raw(NoMsg, Str(Doctype \o SecurityCheck)) }

\* answers of Binance that fail whatever the request was
BinanceFailures ==
  { Raw(<<"Response code ", "5", "02">>, Undef),
    Raw(NoMessage, Undef),
    Raw(NoMsg, [Obj EXCEPT !.code = "-2010",
                           !.msg = <<"Account has insufficient balance for requested action.">>]) }

Failures(a) == IF a = "poloniex" THEN PoloniexFailures ELSE BinanceFailures

\* the answers among these that report a transient fault of the network or of
\* the exchange: a lost answer, an empty body, a 5xx response code.  For a
\* Poloniex placement 'ETIMEDOUT' is not one: its result is unknown
TransientAnswers(a, o) ==
  IF a = "poloniex"
    THEN {Raw(<<"E", "SOCKET", "TIMEDOUT">>, Undef), Raw(NoMsg, Undef)}
         \cup (IF o \in {"buy", "sell"} THEN {} ELSE {Raw(<<"E", "TIMEDOUT">>, Undef)})
    ELSE {Raw(<<"E", "SOCKET", "TIMEDOUT">>, Undef), Raw(<<"E", "TIMEDOUT">>, Undef),
          Raw(<<"Response code ", "5", "02">>, Undef)}

FreeIds == {i \in Ids : orders[i].st = "none"}
NewId == CHOOSE i \in FreeIds : \A j \in FreeIds : i <= j

\* the body of a placed order
Placed(a, i) ==
  IF a = "poloniex" THEN [Obj EXCEPT !.orderNumber = i] ELSE [Obj EXCEPT !.orderId = i]

\* answers to a placement request: [raw, eff], eff the effect at the exchange
PlaceAnswers(a) ==
  (IF FreeIds # {}
     THEN {[raw |-> Raw(NoMsg, Placed(a, NewId)), eff |-> "create"]}
          \cup {[raw |-> Raw(e, Undef), eff |-> "create"] : e \in NetworkErrors}
     ELSE {})
  \cup {[raw |-> Raw(e, Undef), eff |-> "none"] : e \in NetworkErrors}
  \cup {[raw |-> r, eff |-> "none"] : r \in Failures(a)}

\* answers to a cancel request for order id
CancelAnswers(a, id) ==
  (IF orders[id].st = "open"
     THEN {[raw |-> Raw(NoMsg, [Obj EXCEPT !.success = 1]), eff |-> "cancel"],
           [raw |-> Raw(NoMsg, [Obj EXCEPT !.success = 0]), eff |-> "none"]}
          \cup {[raw |-> Raw(e, Undef), eff |-> "cancel"] : e \in NetworkErrors}
     ELSE IF a = "poloniex"
       THEN {[raw |-> Raw(NoMsg, [Obj EXCEPT !.error = InvalidOrder]), eff |-> "none"],
             [raw |-> Raw(InvalidOrder \o <<" (", "429", ")">>, Undef), eff |-> "none"]}
       ELSE {[raw |-> Raw(NoMsg, [Obj EXCEPT !.code = "-2011", !.msg = <<"UNKNOWN_ORDER">>]),
              eff |-> "none"]})
  \cup {[raw |-> Raw(e, Undef), eff |-> "none"] : e \in NetworkErrors}
  \cup {[raw |-> r, eff |-> "none"] : r \in Failures(a)}

\* the status Binance reports for order id
BinanceStatus(id) ==
  CASE orders[id].st = "filled" -> {"FILLED"}
    [] orders[id].st = "cancelled" -> {"CANCELED"}
    [] orders[id].st = "open" /\ orders[id].rem = StartAmount -> {"NEW", "PENDING_CANCEL"}
    [] OTHER -> {"PARTIALLY_FILLED", "PENDING_CANCEL"}

\* answers to an order-status request for order id
CheckAnswers(a, id) ==
  (IF a = "poloniex"
     THEN {[raw |-> Raw(NoMsg, [Obj EXCEPT !.orders = OpenOrders(asc)]), eff |-> "none"] :
              asc \in BOOLEAN}
          \cup {[raw |-> Raw(NoMsg, [Obj EXCEPT !.error = OrderNotFound]), eff |-> "none"]}
     ELSE {[raw |-> Raw(NoMsg, [Obj EXCEPT !.status = s, !.orderId = id,
                                           !.executedQty = StartAmount - orders[id].rem]),
            eff |-> "none"] : s \in BinanceStatus(id)})
  \cup {[raw |-> Raw(e, Undef), eff |-> "none"] : e \in NetworkErrors}
  \cup {[raw |-> r, eff |-> "none"] : r \in Failures(a)}

\* answers to a request for the trades of order id
TradesAnswers(a, id) ==
  (IF a = "poloniex"
     THEN (IF orders[id].trades = << >>
             THEN {[raw |-> Raw(NoMsg, [Obj EXCEPT !.error = OrderNotFound]), eff |-> "none"],
                   [raw |-> Raw(OrderNotFound \o <<" (", "429", ")">>, Undef), eff |-> "none"]}
             ELSE {[raw |-> Raw(NoMsg, [Obj EXCEPT !.trades = orders[id].trades]),
                    eff |-> "none"]})
     ELSE {[raw |-> Raw(NoMsg, [Obj EXCEPT !.trades = AllTrades(Listed(Ids, TRUE))]),
            eff |-> "none"]})
  \cup {[raw |-> Raw(e, Undef), eff |-> "none"] : e \in NetworkErrors}
  \cup {[raw |-> r, eff |-> "none"] : r \in Failures(a)}

\* answers to a request for the trades of the market (returnTradeHistory,
\* aggTrades); the trades themselves are not followed
HistoryAnswers(a) ==
  {Raw(NoMsg, Obj)} \cup {Raw(e, Undef) : e \in NetworkErrors} \cup Failures(a)

\* answers to the sell request that Poloniex getTrades sends: its amount is the
\* error of the trades request and its rate the body, so no order comes of it
OrphanSellAnswers ==
  {[raw |-> Raw(e, Undef), eff |-> "none"] : e \in NetworkErrors}
  \cup {[raw |-> r, eff |-> "none"] : r \in PoloniexFailures}

\* answers to a request for the balances of the account
BalanceAnswers(a) ==
  {Raw(NoMsg, [Obj EXCEPT !.balances = [asset |-> x, currency |-> y]]) :
     x \in Reported, y \in Reported}
  \cup {Raw(e, Undef) : e \in NetworkErrors}
  \cup Failures(a)

\* what the requests of the run of operation o ask of the exchange
Request(a, o) ==
  CASE o \in {"buy", "sell"} -> "placement"
    [] o = "cancelOrder" -> "cancel"
    [] o = "checkOrder" -> "orderStatus"
    [] o = "getOrder" -> "orderTrades"
    \* part_000 lines 314 and 234: the run is the one of this.sell
    [] o = "getTrades" -> IF a = "poloniex" THEN "placement" ELSE "marketTrades"
    [] o = "getPortfolio" -> "balances"

Answers(a, o, id) ==
  CASE o \in {"buy", "sell"} -> PlaceAnswers(a)
    [] o = "cancelOrder" -> CancelAnswers(a, id)
    [] o = "checkOrder" -> CheckAnswers(a, id)
    [] o = "getOrder" -> TradesAnswers(a, id)
    [] o = "getTrades" ->
         IF a = "poloniex" THEN OrphanSellAnswers
         ELSE {[raw |-> r, eff |-> "none"] : r \in HistoryAnswers(a)}
    [] o = "getPortfolio" -> {[raw |-> r, eff |-> "none"] : r \in BalanceAnswers(a)}

\* answers to the look-up of the open orders (findLastTrade)
LookupAnswers ==
  {Raw(NoMsg, [Obj EXCEPT !.orders = OpenOrders(asc)]) : asc \in BOOLEAN}
  \cup {Raw(e, Undef) : e \in NetworkErrors}
  \cup PoloniexFailures

\* the exchange after a request took effect
Effect(eff, id) ==
  CASE eff = "create" ->
         [orders EXCEPT ![NewId] =
            [st |-> "open", recent |-> TRUE, by |-> ncalls, rem |-> StartAmount,
             trades |-> << >>]]
    [] eff = "cancel" -> [orders EXCEPT ![id].st = "cancelled", ![id].recent = FALSE]
    [] OTHER -> orders


\* no call came before the running one
NoPrev == [n |-> 0, op |-> "none", cb |-> NoCallback, raw |-> NoRaw, orders |-> << >>]

\* nothing was rounded yet
NoRounded == [fn |-> "none", adapter |-> "none", x |-> 0, tick |-> 0, r |-> 0]

\* no operations are in flight side by side
NoRuns == << >>

(***************************************************************************)
(* Operations.                                                             *)
(***************************************************************************)
\* Poloniex: the callback processResponse(next, fn) returns, run on one answer
PoloniexNext(st, a, o, id, raw) ==
  LET pr == processResponse(PoloniexFn(o), raw.err, raw.data)
  IN IF pr.reconcile
       THEN [st EXCEPT !.tasks = Add(@, Task("reconTimer", 0, pr.error))]
       ELSE RetryNext(st, a, o, id, pr.error, pr.data)

\* Binance: the callback handleResponse(funcName, callback) returns
BinanceNext(st, a, o, id, raw) ==
  LET hr == handleResponse(o, raw.err, raw.data)
  IN RetryNext(st, a, o, id, hr.error, hr.data)

Init ==
  /\ adapter = "none"
  /\ op = "none"
  /\ arg = 0
  /\ attempts = 0
  /\ tasks = EmptyBag
  /\ cb = NoCallback
  /\ crashed = FALSE
  /\ orders \in
       {[i \in Ids |-> IF i = 1 THEN o1 ELSE NoOrder] :
          o1 \in {NoOrder} \cup
                 {[st |-> "open", recent |-> r, by |-> 0, rem |-> StartAmount,
                   trades |-> << >>] : r \in BOOLEAN}}
  /\ ncalls = 0
  /\ sent = 0
  /\ created = 0
  /\ lastRaw = NoRaw
  /\ lookup = NoLookup
  /\ handled = NoHandled
  /\ transient = 0
  /\ prev = NoPrev
  /\ rounded = NoRounded
  /\ runs = NoRuns

\* the strategy calls an operation: retry starts its first attempt at once
Start(a, o, id) ==
  /\ ~crashed
  /\ tasks = EmptyBag
  /\ ncalls < MaxCalls
  /\ IF o \in {"buy", "sell"} THEN id = 0 ELSE id \in Ids /\ orders[id].st # "none"
  /\ adapter' = a
  /\ op' = o
  /\ arg' = id
  /\ attempts' = 1
  /\ tasks' = SetToBag({Req})
  /\ cb' = NoCallback
  /\ ncalls' = ncalls + 1
  /\ sent' = 1
  /\ created' = 0
  /\ lastRaw' = NoRaw
  /\ lookup' = NoLookup
  /\ handled' = NoHandled
  /\ transient' = 0
  /\ UNCHANGED <<crashed, orders,
                 prev, rounded, runs>>

\* the backoff wait of the run is over: the next attempt sends its request
FireTimer ==
  /\ ~crashed
  /\ BagIn(Timer, tasks)
  /\ tasks' = Add(Remove(tasks, Timer), Req)
  /\ sent' = sent + 1
  /\ UNCHANGED <<adapter, op, arg, attempts, cb, crashed, orders, ncalls, created,
                 lastRaw, lookup, handled, transient,
                 prev, rounded, runs>>

\* the exchange answers a request of the call's operation
Respond ==
  /\ ~crashed
  /\ BagIn(Req, tasks)
  /\ \E ans \in Answers(adapter, op, arg) :
       LET st0 == [Local EXCEPT !.tasks = Remove(@, Req)]
           st1 == IF adapter = "poloniex"
                    THEN PoloniexNext(st0, adapter, op, arg, ans.raw)
                    ELSE BinanceNext(st0, adapter, op, arg, ans.raw)
       IN /\ Policy(adapter, op).forever => st1.attempts <= MaxForever
          /\ attempts' = st1.attempts
          /\ tasks' = st1.tasks
          /\ cb' = st1.cb
          /\ crashed' = st1.crashed
          /\ handled' = st1.handled
          /\ orders' = Effect(ans.eff, arg)
          /\ created' = created + (IF ans.eff = "create" THEN 1 ELSE 0)
          /\ lastRaw' = ans.raw
          /\ transient' = transient + (IF ans.raw \in TransientAnswers(adapter, op) THEN 1 ELSE 0)
  /\ UNCHANGED <<adapter, op, arg, ncalls, sent, lookup,
                 prev, rounded, runs>>

\* setTimeout(..., this.checkInterval) of processResponse fires: findLastTrade
\* starts its retry run, whose first attempt sends the look-up
FireReconTimer ==
  /\ ~crashed
  /\ \E t \in BagToSet(tasks) :
       /\ t.k = "reconTimer"
       /\ tasks' = Add(Remove(tasks, t), Task("lookupReq", 1, t.e))
  /\ UNCHANGED <<adapter, op, arg, attempts, cb, crashed, orders, ncalls, sent,
                 created, lastRaw, lookup, handled, transient,
                 prev, rounded, runs>>

\* the backoff wait of the look-up's run is over
FireLookupTimer ==
  /\ ~crashed
  /\ \E t \in BagToSet(tasks) :
       /\ t.k = "lookupTimer"
       /\ tasks' = Add(Remove(tasks, t), Task("lookupReq", t.n, t.e))
  /\ UNCHANGED <<adapter, op, arg, attempts, cb, crashed, orders, ncalls, sent,
                 created, lastRaw, lookup, handled, transient,
                 prev, rounded, runs>>

\* the exchange answers a look-up
LookupRespond ==
  /\ ~crashed
  /\ \E t \in BagToSet(tasks) :
       /\ t.k = "lookupReq"
       /\ \E raw \in LookupAnswers :
            LET st0 == [Local EXCEPT !.tasks = Remove(@, t)]
                st1 == LookupNext(st0, adapter, op, arg, t.e, t.n, raw.err, raw.data)
            IN /\ attempts' = st1.attempts
               /\ tasks' = st1.tasks
               /\ cb' = st1.cb
               /\ crashed' = st1.crashed
               /\ handled' = st1.handled
               /\ lookup' = Observed(raw)
  /\ UNCHANGED <<adapter, op, arg, orders, ncalls, sent, created, lastRaw, transient,
                 prev, rounded, runs>>

\* the exchange matches amt units of an open order at some rate.  Only the
\* order the call is about is followed fill by fill; another order is matched
\* whole, at the lowest rate
Fill(id, amt, rate) ==
  /\ orders[id].st = "open"
  /\ amt \in 1..orders[id].rem
  /\ id # arg => amt = orders[id].rem /\ \A r \in Rates : rate <= r
  /\ orders' =
       [orders EXCEPT ![id] =
          [@ EXCEPT !.rem = @ - amt,
                    !.st = IF orders[id].rem = amt THEN "filled" ELSE "open",
                    !.recent = IF orders[id].rem = amt THEN FALSE ELSE @,
                    !.trades = Append(@, [orderId |-> id, rate |-> rate, amount |-> amt,
                                          date |-> Len(@) + 1])]]
  /\ UNCHANGED <<adapter, op, arg, attempts, tasks, cb, crashed, ncalls, sent,
                 created, lastRaw, lookup, handled, transient,
                 prev, rounded, runs>>

\* time passes: an order is no longer dated within the last 2 minutes
Age(id) ==
  /\ orders[id].st = "open"
  /\ orders[id].recent
  /\ orders' = [orders EXCEPT ![id].recent = FALSE]
  /\ UNCHANGED <<adapter, op, arg, attempts, tasks, cb, crashed, ncalls, sent,
                 created, lastRaw, lookup, handled, transient,
                 prev, rounded, runs>>

\* what happens whichever operations the strategy calls
Run ==
  \/ FireTimer
  \/ Respond
  \/ \E id \in Ids, amt \in 1..StartAmount, rate \in Rates : Fill(id, amt, rate)
  \/ \E id \in Ids : Age(id)

\* the look-up of a placement whose result is unknown
Reconcile ==
  \/ FireReconTimer
  \/ FireLookupTimer
  \/ LookupRespond

Next ==
  \/ \E a \in Adapters, o \in Ops, id \in Ids \cup {0} : Start(a, o, id)
  \/ Run
  \/ Reconcile

Spec == Init /\ [][Next]_vars

\* the strategy places orders on Poloniex only
NextPlacePoloniex ==
  \/ \E o \in {"buy", "sell"} : Start("poloniex", o, 0)
  \/ Run
  \/ Reconcile

SpecPlacePoloniex == Init /\ [][NextPlacePoloniex]_vars

\* the strategy places orders on Binance only
NextPlaceBinance ==
  \/ \E o \in {"buy", "sell"} : Start("binance", o, 0)
  \/ Run

SpecPlaceBinance == Init /\ [][NextPlaceBinance]_vars

\* the strategy cancels orders only
NextCancel ==
  \/ \E a \in Adapters, id \in Ids : Start(a, "cancelOrder", id)
  \/ Run

SpecCancel == Init /\ [][NextCancel]_vars

\* the strategy queries orders only
NextQuery ==
  \/ \E a \in Adapters, o \in {"checkOrder", "getOrder"}, id \in Ids : Start(a, o, id)
  \/ Run

SpecQuery == Init /\ [][NextQuery]_vars

\* the strategy cancels and queries orders: every policy is in use
NextManage ==
  \/ \E a \in Adapters, o \in {"cancelOrder", "checkOrder", "getOrder"}, id \in Ids :
       Start(a, o, id)
  \/ Run

SpecManage == Init /\ [][NextManage]_vars

\* open orders the account may start with
MaxBook == 2

\* the account starts with any set of older open orders on the pair
InitBook ==
  /\ adapter = "none"
  /\ op = "none"
  /\ arg = 0
  /\ attempts = 0
  /\ tasks = EmptyBag
  /\ cb = NoCallback
  /\ crashed = FALSE
  /\ \E open \in SUBSET (1..MaxBook) :
       orders = [i \in Ids |->
                   IF i \in open
                     THEN [st |-> "open", recent |-> FALSE, by |-> 0,
                           rem |-> StartAmount, trades |-> << >>]
                     ELSE NoOrder]
  /\ ncalls = 0
  /\ sent = 0
  /\ created = 0
  /\ lastRaw = NoRaw
  /\ lookup = NoLookup
  /\ handled = NoHandled
  /\ transient = 0
  /\ prev = NoPrev
  /\ rounded = NoRounded
  /\ runs = NoRuns

\* the strategy makes one query on an account that has several orders
NextBook ==
  \/ \E a \in Adapters, o \in {"checkOrder", "getOrder"}, id \in Ids :
       ncalls = 0 /\ Start(a, o, id)
  \/ FireTimer
  \/ Respond
  \/ \E id \in Ids, amt \in 1..StartAmount, rate \in Rates : Fill(id, amt, rate)

SpecBook == InitBook /\ [][NextBook]_vars

\* trades that filled an order, and the largest amount of one trade
MaxFills == 3
MaxFillAmount == 2

\* the histories of an order filled by n trades
FillHistories(n) ==
  {[k \in 1..n |-> [orderId |-> 1, rate |-> f[k][1], amount |-> f[k][2], date |-> k]] :
     f \in [1..n -> Rates \X (1..MaxFillAmount)]}

\* the account holds one order, filled by any sequence of trades
InitFilled ==
  /\ adapter = "none"
  /\ op = "none"
  /\ arg = 0
  /\ attempts = 0
  /\ tasks = EmptyBag
  /\ cb = NoCallback
  /\ crashed = FALSE
  /\ \E n \in 1..MaxFills : \E h \in FillHistories(n) :
       orders = [i \in Ids |->
                   IF i = 1
                     THEN [st |-> "filled", recent |-> FALSE, by |-> 0, rem |-> 0,
                           trades |-> h]
                     ELSE NoOrder]
  /\ ncalls = 0
  /\ sent = 0
  /\ created = 0
  /\ lastRaw = NoRaw
  /\ lookup = NoLookup
  /\ handled = NoHandled
  /\ transient = 0
  /\ prev = NoPrev
  /\ rounded = NoRounded
  /\ runs = NoRuns

\* the strategy asks once for the summary of the filled order
NextFilled ==
  \/ \E a \in Adapters : ncalls = 0 /\ Start(a, "getOrder", 1)
  \/ FireTimer
  \/ Respond

SpecFilled == InitFilled /\ [][NextFilled]_vars

\* the errors the client library may hand to a response callback
RawErrors ==
  { NoMsg, <<"E", "TIMEDOUT">>, <<"E", "SOCKET", "TIMEDOUT">>, <<"E", "CONNRESET">>,
    <<"Response code ", "5", "02">>, <<"Response code ", "429">>,
    <<"Response code ", "404">>, OrderNotFound, InvalidOrder,
    InvalidOrder \o <<" (", "429", ")">>, NoMessage }

\* a body that answers any request
GoodBody ==
  [Obj EXCEPT !.orderNumber = 1, !.orderId = 1, !.success = 1, !.status = "NEW"]

\* the bodies the client library may hand to a response callback
RawBodies ==
  { Undef, GoodBody,
    [Obj EXCEPT !.error = <<"Not enough BTC.">>],
    [Obj EXCEPT !.error = <<"Nonce must be greater than">> \o <<" 1. You provided 0.">>],
    [Obj EXCEPT !.error = OrderNotFound],
    [Obj EXCEPT !.error = InvalidOrder],
    [Obj EXCEPT !.code = "-1021",
                !.msg = <<"Timestamp for this request is outside of the recvWindow.">>],
    [Obj EXCEPT !.code = "-2010",
                !.msg = <<"Account has insufficient balance for requested action.">>],
    Str(Doctype \o SecurityCheck),
    Str(Doctype \o <<"5", "03">> \o SecurityCheck),
    Str(Doctype \o TryAgain),
    Str(Doctype \o <<"5", "02">> \o <<" Bad Gateway">>),
    Str(Doctype \o <<"Maintenance">>) }

\* the first attempt of operation o on adapter a is answered by raw
Classify(a, o, raw) ==
  LET st0 == [attempts |-> 1, tasks |-> EmptyBag, cb |-> NoCallback,
              crashed |-> FALSE, handled |-> NoHandled]
      id == IF o \in {"buy", "sell"} THEN 0 ELSE 1
      st1 == IF a = "poloniex" THEN PoloniexNext(st0, a, o, id, raw)
                               ELSE BinanceNext(st0, a, o, id, raw)
  IN /\ ncalls = 0
     /\ adapter' = a
     /\ op' = o
     /\ arg' = id
     /\ attempts' = st1.attempts
     /\ tasks' = st1.tasks
     /\ cb' = st1.cb
     /\ crashed' = st1.crashed
     /\ handled' = st1.handled
     /\ ncalls' = 1
     /\ sent' = 1
     /\ lastRaw' = raw
     /\ UNCHANGED <<orders, created, lookup, transient,
                 prev, rounded, runs>>

\* any operation, answered by any error and body
NextClassify ==
  \E a \in Adapters, o \in Ops, e \in RawErrors, d \in RawBodies :
    Classify(a, o, Raw(e, d))

SpecClassify == Init /\ [][NextClassify]_vars

\* the strategy places one order on Poloniex
NextReconcile ==
  \/ \E o \in {"buy", "sell"} : ncalls = 0 /\ Start("poloniex", o, 0)
  \/ Run
  \/ Reconcile

SpecReconcile == Init /\ [][NextReconcile]_vars

\* the request Poloniex getTrades sends outside any retry run
TradesReq == Task("tradesReq", 0, NoError)

\* the strategy calls getTrades: Binance starts a retry run (lines 109-110),
\* Poloniex sends returnTradeHistory once (line 347)
StartTrades(a) ==
  /\ ~crashed
  /\ tasks = EmptyBag
  /\ ncalls < MaxCalls
  /\ adapter' = a
  /\ op' = "getTrades"
  /\ arg' = 0
  /\ attempts' = IF a = "poloniex" THEN 0 ELSE 1
  /\ tasks' = SetToBag({IF a = "poloniex" THEN TradesReq ELSE Req})
  /\ cb' = NoCallback
  /\ ncalls' = ncalls + 1
  /\ sent' = 1
  /\ created' = 0
  /\ lastRaw' = NoRaw
  /\ lookup' = NoLookup
  /\ handled' = NoHandled
  /\ transient' = 0
  /\ UNCHANGED <<crashed, orders, prev, rounded, runs>>

\* Poloniex answers returnTradeHistory.  The callback is
\* processResponse(this.sell, args, handler): next is this.sell, fn the
\* argument list, the handler is a third argument processResponse does not
\* have.  Whatever the answer, next(error, data) is sell(error, data).  Where
\* _.bindAll(this) of line 7 has bound the methods (lodash before 4), sell
\* starts its retry run, whose first attempt sends a sell request; where it has
\* not, `this` is not the adapter in sell and this.poloniex throws a TypeError
TradesRespond ==
  /\ ~crashed
  /\ BagIn(TradesReq, tasks)
  /\ \E raw \in HistoryAnswers("poloniex"), bound \in BOOLEAN :
       LET pr == processResponse("none", raw.err, raw.data)
           st0 == [Local EXCEPT !.tasks = Remove(@, TradesReq)]
           st1 == IF bound THEN [st0 EXCEPT !.attempts = 1, !.tasks = Add(@, Req)]
                           ELSE Throw(st0)
       IN /\ ~pr.reconcile
          /\ attempts' = st1.attempts
          /\ tasks' = st1.tasks
          /\ crashed' = st1.crashed
          /\ sent' = sent + (IF bound THEN 1 ELSE 0)
          /\ lastRaw' = raw
  /\ UNCHANGED <<adapter, op, arg, cb, orders, ncalls, created, lookup, handled,
                 transient, prev, rounded, runs>>

\* the strategy asks for the trades of the market
NextTrades ==
  \/ \E a \in Adapters : ncalls = 0 /\ StartTrades(a)
  \/ TradesRespond
  \/ FireTimer
  \/ Respond
  \/ Reconcile

SpecTrades == Init /\ [][NextTrades]_vars

\* the strategy calls getPortfolio: retry starts its first attempt at once
StartPortfolio(a) ==
  /\ ~crashed
  /\ tasks = EmptyBag
  /\ ncalls < MaxCalls
  /\ adapter' = a
  /\ op' = "getPortfolio"
  /\ arg' = 0
  /\ attempts' = 1
  /\ tasks' = SetToBag({Req})
  /\ cb' = NoCallback
  /\ ncalls' = ncalls + 1
  /\ sent' = 1
  /\ created' = 0
  /\ lastRaw' = NoRaw
  /\ lookup' = NoLookup
  /\ handled' = NoHandled
  /\ transient' = 0
  /\ UNCHANGED <<crashed, orders, prev, rounded, runs>>

\* the strategy asks for the balances of the account
NextPortfolio ==
  \/ \E a \in Adapters : StartPortfolio(a)
  \/ FireTimer
  \/ Respond

SpecPortfolio == Init /\ [][NextPortfolio]_vars

\* calls the strategy makes about an order after its first one
MaxFollowUps == 1

\* the strategy, answered, calls operation o for the same order on the same
\* adapter; prev keeps what the call before returned and what the exchange held
StartAgain(o) ==
  /\ ~crashed
  /\ tasks = EmptyBag
  /\ cb.n >= 1
  /\ prev.n < MaxFollowUps
  /\ arg \in Ids
  /\ prev' = [n |-> prev.n + 1, op |-> op, cb |-> cb, raw |-> lastRaw, orders |-> orders]
  /\ op' = o
  /\ attempts' = 1
  /\ tasks' = SetToBag({Req})
  /\ cb' = NoCallback
  /\ ncalls' = ncalls + 1
  /\ sent' = 1
  /\ created' = 0
  /\ lastRaw' = NoRaw
  /\ lookup' = NoLookup
  /\ handled' = NoHandled
  /\ transient' = 0
  /\ UNCHANGED <<adapter, arg, crashed, orders, rounded, runs>>

\* the account holds order 1 in any state an order can be in (untouched,
\* partly filled, filled, cancelled) and possibly a second open order
InitSettled ==
  /\ adapter = "none"
  /\ op = "none"
  /\ arg = 0
  /\ attempts = 0
  /\ tasks = EmptyBag
  /\ cb = NoCallback
  /\ crashed = FALSE
  /\ \E o1 \in
         { [st |-> "open", recent |-> FALSE, by |-> 0, rem |-> StartAmount,
            trades |-> << >>],
           [st |-> "open", recent |-> FALSE, by |-> 0, rem |-> StartAmount - 1,
            trades |-> <<[orderId |-> 1, rate |-> 10, amount |-> 1, date |-> 1]>>],
           [st |-> "filled", recent |-> FALSE, by |-> 0, rem |-> 0,
            trades |-> <<[orderId |-> 1, rate |-> 20, amount |-> StartAmount,
                          date |-> 1]>>],
           [st |-> "cancelled", recent |-> FALSE, by |-> 0, rem |-> StartAmount,
            trades |-> << >>] },
        o2 \in
         { NoOrder,
           [st |-> "open", recent |-> FALSE, by |-> 0, rem |-> StartAmount,
            trades |-> << >>] } :
       orders = [i \in Ids |-> IF i = 1 THEN o1 ELSE IF i = 2 THEN o2 ELSE NoOrder]
  /\ ncalls = 0
  /\ sent = 0
  /\ created = 0
  /\ lastRaw = NoRaw
  /\ lookup = NoLookup
  /\ handled = NoHandled
  /\ transient = 0
  /\ prev = NoPrev
  /\ rounded = NoRounded
  /\ runs = NoRuns

\* the strategy makes a query about an order and then the same query again,
\* while nothing happens at the exchange
NextAgain ==
  \/ \E a \in Adapters, o \in {"checkOrder", "getOrder"}, id \in Ids :
       ncalls = 0 /\ Start(a, o, id)
  \/ StartAgain(op)
  \/ FireTimer
  \/ Respond

SpecAgain == InitSettled /\ [][NextAgain]_vars

\* the strategy cancels an order and then asks for its status
NextCancelCheck ==
  \/ \E a \in Adapters, id \in Ids : ncalls = 0 /\ Start(a, "cancelOrder", id)
  \/ op = "cancelOrder" /\ StartAgain("checkOrder")
  \/ FireTimer
  \/ Respond

SpecCancelCheck == Init /\ [][NextCancelCheck]_vars

(***************************************************************************)
(* Operations in flight side by side on one adapter.  Each call has its    *)
(* own retry run and its own closures (next, handle, callback): runs[i] is *)
(* the state of the i-th call, worked on by the same handlers.             *)
(***************************************************************************)
\* operations the strategy has in flight at once
MaxRuns == 2

\* the operations the strategy runs side by side
SideBySide == {"buy", "checkOrder"}

\* the strategy calls operation o while earlier calls are still in flight
StartRun(a, o, id) ==
  /\ Len(runs) < MaxRuns
  /\ \A i \in DOMAIN runs : ~runs[i].crashed
  /\ adapter \in {"none", a}
  /\ IF o \in {"buy", "sell"} THEN id = 0 ELSE id \in Ids /\ orders[id].st # "none"
  /\ adapter' = a
  /\ runs' = Append(runs, [op |-> o, arg |-> id, attempts |-> 1,
                           tasks |-> SetToBag({Req}), cb |-> NoCallback,
                           crashed |-> FALSE, handled |-> NoHandled])
  /\ ncalls' = ncalls + 1
  /\ UNCHANGED <<op, arg, attempts, tasks, cb, crashed, orders, sent, created,
                 lastRaw, lookup, handled, transient, prev, rounded>>

\* the runs after a handler has left run i as st: an exception that leaves
\* the handler ends the process, and with it the timers and requests of
\* every run
AfterStep(i, st) ==
  [j \in DOMAIN runs |->
     IF j = i THEN st
     ELSE IF st.crashed THEN Throw(runs[j])
     ELSE runs[j]]

\* the backoff wait of run i is over
RunFireTimer(i) ==
  /\ i \in DOMAIN runs
  /\ BagIn(Timer, runs[i].tasks)
  /\ runs' = AfterStep(i, [runs[i] EXCEPT !.tasks = Add(Remove(@, Timer), Req)])
  /\ UNCHANGED <<adapter, op, arg, attempts, tasks, cb, crashed, orders, ncalls, sent,
                 created, lastRaw, lookup, handled, transient, prev, rounded>>

\* the exchange answers a request of run i
RunRespond(i) ==
  /\ i \in DOMAIN runs
  /\ BagIn(Req, runs[i].tasks)
  /\ \E ans \in Answers(adapter, runs[i].op, runs[i].arg) :
       LET st0 == [runs[i] EXCEPT !.tasks = Remove(@, Req)]
           st1 == IF adapter = "poloniex"
                    THEN PoloniexNext(st0, adapter, st0.op, st0.arg, ans.raw)
                    ELSE BinanceNext(st0, adapter, st0.op, st0.arg, ans.raw)
       IN /\ Policy(adapter, st0.op).forever => st1.attempts <= MaxForever
          /\ runs' = AfterStep(i, st1)
          /\ orders' = Effect(ans.eff, st0.arg)
  /\ UNCHANGED <<adapter, op, arg, attempts, tasks, cb, crashed, ncalls, sent,
                 created, lastRaw, lookup, handled, transient, prev, rounded>>

\* the look-up timer of run i fires
RunFireReconTimer(i) ==
  /\ i \in DOMAIN runs
  /\ \E t \in BagToSet(runs[i].tasks) :
       /\ t.k = "reconTimer"
       /\ runs' = AfterStep(i, [runs[i] EXCEPT
                                  !.tasks = Add(Remove(@, t), Task("lookupReq", 1, t.e))])
  /\ UNCHANGED <<adapter, op, arg, attempts, tasks, cb, crashed, orders, ncalls, sent,
                 created, lastRaw, lookup, handled, transient, prev, rounded>>

\* the backoff wait of the look-up of run i is over
RunFireLookupTimer(i) ==
  /\ i \in DOMAIN runs
  /\ \E t \in BagToSet(runs[i].tasks) :
       /\ t.k = "lookupTimer"
       /\ runs' = AfterStep(i, [runs[i] EXCEPT
                                  !.tasks = Add(Remove(@, t), Task("lookupReq", t.n, t.e))])
  /\ UNCHANGED <<adapter, op, arg, attempts, tasks, cb, crashed, orders, ncalls, sent,
                 created, lastRaw, lookup, handled, transient, prev, rounded>>

\* the exchange answers a look-up of run i
RunLookupRespond(i) ==
  /\ i \in DOMAIN runs
  /\ \E t \in BagToSet(runs[i].tasks) :
       /\ t.k = "lookupReq"
       /\ \E raw \in LookupAnswers :
            LET st0 == [runs[i] EXCEPT !.tasks = Remove(@, t)]
            IN runs' = AfterStep(i, LookupNext(st0, adapter, st0.op, st0.arg, t.e, t.n,
                                               raw.err, raw.data))
  /\ UNCHANGED <<adapter, op, arg, attempts, tasks, cb, crashed, orders, ncalls, sent,
                 created, lastRaw, lookup, handled, transient, prev, rounded>>

NextRuns ==
  \/ \E a \in Adapters, o \in SideBySide, id \in Ids \cup {0} : StartRun(a, o, id)
  \/ \E i \in 1..MaxRuns :
       \/ RunFireTimer(i)
       \/ RunRespond(i)
       \/ RunFireReconTimer(i)
       \/ RunFireLookupTimer(i)
       \/ RunLookupRespond(i)

SpecRuns == Init /\ [][NextRuns]_vars


(***************************************************************************)
(* Rounding.  Amounts, prices and tick sizes are decimal numbers with      *)
(* Digits decimals, held as their count of units of 10^-Digits.            *)
(***************************************************************************)
\* decimals of the numbers rounded, and the largest of them, in units
Digits == 2
MaxInput == 150

RECURSIVE Pow10(_)
Pow10(n) == IF n = 0 THEN 1 ELSE 10 * Pow10(n - 1)

\* one whole, in units
One == Pow10(Digits)

\* binance.js lines 174-176: the loop of getPrecision from (e, p) on;
\* Math.round(tickSize * e) / e equals tickSize when tickSize * e is whole
RECURSIVE PrecisionLoop(_, _, _)
PrecisionLoop(tickSize, e, p) ==
  IF (tickSize * e) % One = 0 THEN p ELSE PrecisionLoop(tickSize, e * 10, p + 1)

\* binance.js lines 172-177
getPrecision(tickSize) == PrecisionLoop(tickSize, 1, 0)

\* a variant of binance.js lines 179-190 that rounds to the nearest step
roundNearest(amount, tickSize) ==
  LET precision == Pow10(getPrecision(tickSize))
      scaled == amount * precision
  IN (((2 * scaled + One) \div (2 * One)) * One) \div precision

\* binance.js lines 179-190: amount * precision, Math.floor, / precision
round(amount, tickSize) ==
  LET precision == Pow10(getPrecision(tickSize))
      scaled == amount * precision
  IN ((scaled \div One) * One) \div precision

\* binance.js lines 192-198; part_000 lines 203-209 (+amount, +price)
roundAmount(a, amount, tickSize) ==
  IF a = "binance" THEN round(amount, tickSize) ELSE amount

roundPrice(a, price, tickSize) ==
  IF a = "binance" THEN round(price, tickSize) ELSE price

\* the tick sizes of the markets: 0.01, 0.1, 1
Ticks == {Pow10(k) : k \in 0..Digits}

\* the strategy rounds an amount or a price before it places an order
Round(a, fn, x, tickSize) ==
  /\ rounded.fn = "none"
  /\ rounded' =
       [fn |-> fn, adapter |-> a, x |-> x, tick |-> tickSize,
        r |-> IF fn = "roundAmount" THEN roundAmount(a, x, tickSize)
                                    ELSE roundPrice(a, x, tickSize)]
  /\ UNCHANGED <<adapter, op, arg, attempts, tasks, cb, crashed, orders, ncalls, sent,
                 created, lastRaw, lookup, handled, transient, prev, runs>>

NextRound ==
  \E a \in Adapters, fn \in {"roundAmount", "roundPrice"},
     x \in (-MaxInput)..MaxInput, tickSize \in Ticks :
    Round(a, fn, x, tickSize)

SpecRound == Init /\ [][NextRound]_vars


(***************************************************************************)
(* Properties.                                                             *)
(***************************************************************************)
ETIMEDOUT == <<"E", "TIMEDOUT">>

Placement == op \in {"buy", "sell"}

\* the caller has been told of a failure / of a success
Failed == cb.n >= 1 /\ cb.err.present
Succeeded == cb.n >= 1 /\ ~cb.err.present

\* a look-up was answered with a list of open orders none of which is dated
\* within the last 2 minutes
LookupFoundNone == lookup.answered /\ ~lookup.failed /\ lookup.recent = 0

\* a look-up was answered with a list holding an order dated within the last 2 minutes
LookupFound == lookup.answered /\ ~lookup.failed /\ lookup.recent # 0

\* C1: Poloniex buy/sell: once a placement attempt has failed with 'ETIMEDOUT'
\* and the look-up of the open orders has found no order of the last 2 minutes,
\* the call has reported a failure to its caller and no further placement
\* request is pending or sent.
C1_FailsWithoutSecondPlacement ==
  (adapter = "poloniex" /\ Placement /\ LookupFoundNone)
    => /\ Failed
       /\ ~BagIn(Timer, tasks)
       /\ ~BagIn(Req, tasks)


\* C2: one call to buy or sell creates at most two orders at the exchange: the
\* intended order and at most one duplicate.
C2_AtMostOneDuplicate == Placement => created <= 2

\* C3: on every adapter, after a placement attempt has ended with the
\* connection-timeout error 'ETIMEDOUT' (the request may have executed), the
\* next placement request of the call is not scheduled or sent before the
\* open orders have been looked up.
C3_LookupBeforeNextPlacement ==
  (Placement /\ lastRaw.any /\ lastRaw.err = ETIMEDOUT /\ ~lookup.answered)
    => ~BagIn(Timer, tasks) /\ ~BagIn(Req, tasks)

\* C4: Poloniex buy/sell: once a placement attempt has failed with 'ETIMEDOUT'
\* and the look-up has found an open order of the last 2 minutes, the call has
\* completed successfully with that order's orderNumber and no further
\* placement request is pending or sent.
C4_ReconciledSuccess ==
  (adapter = "poloniex" /\ Placement /\ LookupFound)
    => /\ Succeeded
       /\ cb.val.id = lookup.recent
       /\ ~BagIn(Timer, tasks)
       /\ ~BagIn(Req, tasks)


\* the message of the error the last answer carried: as the err argument, or
\* as the error field of its body
AnswerError ==
  IF lastRaw.err # NoMsg THEN lastRaw.err
  ELSE IF lastRaw.data.t = "obj" THEN lastRaw.data.error
  ELSE NoMsg

\* C5: cancelOrder reports filled = true only for an order that was filled at
\* the exchange, whatever its own retries did (a cancel that took effect and
\* whose answer was lost still ends with filled = false).
C5_FilledOnlyIfFilled ==
  (op = "cancelOrder" /\ Succeeded /\ cb.val.filled) => orders[arg].st = "filled"

\* C6: Poloniex cancelOrder: an answer whose error message contains 'Invalid
\* order number, or you are not the person who placed the order.' ends the
\* call at once with filled = true: no error reaches the caller and nothing is
\* retried, also when the message holds a recoverable signature.
C6_InvalidOrderMeansFilled ==
  (adapter = "poloniex" /\ op = "cancelOrder" /\ lastRaw.any
     /\ Contains(AnswerError, InvalidOrder))
    => /\ cb.n = 1
       /\ ~cb.err.present
       /\ cb.val.filled
       /\ tasks = EmptyBag
       /\ sent = attempts

\* C6 witness: such an answer, holding the recoverable signature '429' as
\* well, came to a retried cancelOrder, which ended with filled = true
C6_Witness ==
  /\ adapter = "poloniex" /\ op = "cancelOrder" /\ lastRaw.any
  /\ Contains(AnswerError, InvalidOrder)
  /\ Contains(AnswerError, <<"429">>)
  /\ sent >= 2
  /\ cb.n = 1 /\ cb.val.filled

\* the last answer is an error-free answer to a cancel request that reports
\* the cancel as done
CancelSucceeded ==
  /\ lastRaw.any
  /\ lastRaw.err = NoMsg
  /\ lastRaw.data.t = "obj"
  /\ lastRaw.data.error = NoMsg
  /\ lastRaw.data.code = ""
  /\ adapter = "poloniex" => lastRaw.data.success = 1

\* C7: cancelOrder ends with filled = false only when the exchange answered
\* with a successful cancel; every other failure reaches the caller as an error.
C7_NotFilledOnlyIfCancelled ==
  (op = "cancelOrder" /\ Succeeded /\ ~cb.val.filled) => CancelSucceeded

\* C8 as stated: on the Poloniex checkOrder path an answer whose error message
\* contains 'Order not found, or you are not the person who placed it.' is not
\* reported to the caller as an error.
C8_CheckOrderNotFoundIsNoError ==
  (adapter = "poloniex" /\ op = "checkOrder" /\ lastRaw.any
     /\ Contains(AnswerError, OrderNotFound))
    => ~Failed

\* C8 amended: on the Poloniex getOrder path such an answer is turned into a
\* success carrying the unfilled marker: the run ends at once without error,
\* its callback gets {unfilled: true}, and the caller gets price 0, amount 0.
C8_GetOrderNotFoundIsUnfilled ==
  (adapter = "poloniex" /\ op = "getOrder" /\ lastRaw.any
     /\ Contains(AnswerError, OrderNotFound))
    => /\ handled.n = 1
       /\ ~handled.err.present
       /\ handled.data.unfilled
       /\ cb.n = 1
       /\ ~cb.err.present
       /\ cb.val.price = <<0, 1>> /\ cb.val.amount = 0 /\ cb.val.date = 0
       /\ tasks = EmptyBag

\* C8 witness: a getOrder call that got such an answer and has ended
C8_Witness ==
  /\ adapter = "poloniex" /\ op = "getOrder" /\ lastRaw.any
  /\ Contains(AnswerError, OrderNotFound)
  /\ handled.data.unfilled
  /\ cb.n = 1


Query == op \in {"checkOrder", "getOrder"}

\* the attempt cap of the policy the call's run is under
Cap == Policy(adapter, op).retries

\* every request the call has sent was answered, and N of the answers
\* reported a transient fault
AllAnswered == ~BagIn(Req, tasks)

\* the last answer is an error-free body
SuccessAnswer ==
  /\ lastRaw.any
  /\ lastRaw.err = NoMsg
  /\ lastRaw.data.t = "obj"
  /\ lastRaw.data.error = NoMsg
  /\ lastRaw.data.code = ""

\* C9: when the attempts of a run are answered by N transient faults and
\* then by one success, the operation was invoked exactly N+1 times, no
\* invocation is left to come, and the run's callback got the body of the
\* last answer with no error, once.
C9_SuccessAfterRetries ==
  (Query /\ SuccessAnswer /\ transient + 1 = sent)
    => /\ handled = [n |-> 1, err |-> NoError, data |-> lastRaw.data]
       /\ tasks = EmptyBag
       /\ attempts = sent
       /\ sent <= Cap

\* C9 witness: two transient faults, then a success, on either adapter
C9_Witness ==
  /\ Query /\ SuccessAnswer
  /\ transient = 2 /\ sent = 3
  /\ handled.n = 1 /\ ~handled.err.present

\* the message of the error the last transient answer stands for
LastError == IF lastRaw.err # NoMsg THEN lastRaw.err ELSE <<"Empty response">>

\* C10: when every attempt of a run under a bounded policy is answered by a
\* transient fault, the run goes on until the operation was invoked as many
\* times as the policy's retries, and then hands the last error to its
\* callback, once, and the caller gets that error.
C10_ExhaustedRetries ==
  (Query /\ sent >= 1 /\ AllAnswered /\ transient = sent)
    => /\ sent <= Cap
       /\ sent < Cap => /\ handled.n = 0 /\ cb.n = 0
                        /\ tasks = SetToBag({Timer})
       /\ sent = Cap => /\ handled.n = 1
                        /\ handled.err.present
                        /\ Contains(handled.err.msg, LastError)
                        /\ cb.n = 1
                        /\ cb.err = handled.err
                        /\ tasks = EmptyBag

\* C10 witness: a Binance run under retryCritical that ended after its last
\* attempt failed like all those before
C10_Witness ==
  /\ adapter = "binance" /\ Query /\ AllAnswered
  /\ transient = sent /\ sent = RetryCriticalRetries
  /\ handled.n = 1 /\ handled.err.kind = "RetryError"


\* the last answer is a failure that is no transient fault: the exchange
\* refuses the request, answers with the challenge page, or the client
\* library reports an error without a message
FatalAnswer ==
  /\ lastRaw.any
  /\ lastRaw \in Failures(adapter) \ TransientAnswers(adapter, op)

Quiet == lastRaw.any /\ tasks = EmptyBag

\* C12: a buy or sell never runs under the unlimited policy: it sends no more
\* placement requests than its policy's retries, and once nothing of it is
\* left to happen its callback has been invoked.
C12_BoundedThenReports ==
  Placement
    => /\ ~Policy(adapter, op).forever
       /\ sent <= Cap
       /\ Quiet => cb.n >= 1


\* the open orders the last answer lists, and where the queried one is
ListedOrders == lastRaw.data.orders
ListedAt == {i \in 1..Len(ListedOrders) : ListedOrders[i].orderNumber = arg}

\* the last answer is an error-free list of open orders given to checkOrder
CheckAnswered ==
  /\ adapter = "poloniex" /\ op = "checkOrder"
  /\ SuccessAnswer

\* C13: Poloniex checkOrder: when the queried order is not among the open
\* orders the exchange returned, the caller gets {executed: true, open: false},
\* without error and without a filledAmount.
C13_AbsentIsExecuted ==
  (CheckAnswered /\ ListedAt = {})
    => /\ cb.n = 1
       /\ ~cb.err.present
       /\ cb.val.executed /\ ~cb.val.open
       /\ ~cb.val.hasFilledAmount
       /\ tasks = EmptyBag

\* C13 witness: the exchange listed other open orders, not the queried one,
\* which had been filled
C13_Witness ==
  /\ CheckAnswered /\ ListedAt = {}
  /\ Len(ListedOrders) >= 1
  /\ orders[arg].st = "filled"
  /\ cb.n = 1 /\ cb.val.executed


\* C14: Poloniex checkOrder: when the queried order is among the open orders
\* the exchange returned, the caller gets {executed: false, open: true,
\* filledAmount} without error, filledAmount being the listed order's
\* starting amount less its remaining amount, which is what was filled of it.
C14_ListedIsOpen ==
  (CheckAnswered /\ ListedAt # {})
    => /\ cb.n = 1
       /\ ~cb.err.present
       /\ ~cb.val.executed /\ cb.val.open
       /\ cb.val.hasFilledAmount
       /\ \A i \in ListedAt :
            cb.val.filledAmount = ListedOrders[i].startingAmount - ListedOrders[i].amount
       /\ tasks = EmptyBag

\* C14 witness: the queried order was listed after another one, partly filled
C14_Witness ==
  /\ CheckAnswered /\ ListedAt # {}
  /\ Len(ListedOrders) >= 2 /\ ListedOrders[1].orderNumber # arg
  /\ cb.n = 1 /\ cb.val.filledAmount = 1


\* the trades the last answer lists
ListedTrades == lastRaw.data.trades

RECURSIVE SumAmount(_)
SumAmount(trades) ==
  IF trades = << >> THEN 0 ELSE Head(trades).amount + SumAmount(Tail(trades))

RECURSIVE SumVolume(_)
SumVolume(trades) ==
  IF trades = << >> THEN 0
  ELSE Head(trades).rate * Head(trades).amount + SumVolume(Tail(trades))

\* the last answer is an error-free, non-empty list of trades given to getOrder
TradesAnswered == op = "getOrder" /\ SuccessAnswer /\ ListedTrades # << >>

\* C15: Poloniex getOrder: for a non-empty list of fills the caller gets,
\* without error, the sum of the fill amounts as amount and
\* sum(rate * amount) / sum(amount) as price, a value that does not depend
\* on the order of the fills.
C15_VolumeWeightedAverage ==
  (adapter = "poloniex" /\ TradesAnswered)
    => /\ cb.n = 1
       /\ ~cb.err.present
       /\ cb.val.amount = SumAmount(ListedTrades)
       /\ cb.val.price = Frac(SumVolume(ListedTrades), SumAmount(ListedTrades))
       /\ cb.val.date = ListedTrades[Len(ListedTrades)].date

\* C15 witness: fills of unequal amounts, rate 10 for amount 2 after rate 20
\* for amount 1, give price 40/3 and amount 3
C15_Witness ==
  /\ adapter = "poloniex" /\ TradesAnswered
  /\ Len(ListedTrades) = 2
  /\ ListedTrades[1].rate = 20 /\ ListedTrades[1].amount = 1
  /\ ListedTrades[2].rate = 10 /\ ListedTrades[2].amount = 2
  /\ cb.n = 1 /\ cb.val.price = <<40, 3>> /\ cb.val.amount = 3


\* the last answer to getOrder tells that the order has no fills: a list
\* without a trade of the order, or Poloniex's 'Order not found' message
NoFillsAnswered ==
  /\ op = "getOrder" /\ lastRaw.any
  /\ \/ SuccessAnswer /\ \A i \in 1..Len(ListedTrades) : ListedTrades[i].orderId # arg
     \/ adapter = "poloniex" /\ Contains(AnswerError, OrderNotFound)

\* C16: getOrder for an order without fills ends without error and returns
\* price 0, amount 0 and the epoch as date, on either adapter.
C16_NoFillsIsNoError ==
  NoFillsAnswered
    => /\ cb.n = 1
       /\ ~cb.err.present
       /\ cb.val.price = <<0, 1>> /\ cb.val.amount = 0 /\ cb.val.date = 0

\* the order the call is about was filled by several trades, all in the answer
SeveralTrades ==
  /\ TradesAnswered
  /\ Len(ListedTrades) >= 2
  /\ \A i \in 1..Len(ListedTrades) : ListedTrades[i].orderId = arg

\* C17: Binance getOrder: for an order filled by several trades the caller
\* gets the sum of their amounts as amount and their volume-weighted average
\* rate as price.
C17_BinanceCumulative ==
  (adapter = "binance" /\ SeveralTrades)
    => /\ cb.n = 1
       /\ ~cb.err.present
       /\ cb.val.amount = SumAmount(ListedTrades)
       /\ cb.val.price = Frac(SumVolume(ListedTrades), SumAmount(ListedTrades))


\* the error message an answer stands for, NoMsg if it reports no error: on
\* Poloniex that of the client's error, else the one the body carries; on
\* Binance the body's error code and text, else the client's error
MessageOf(a, raw) ==
  IF a = "binance"
    THEN IF raw.data.t # "undef" /\ raw.data.code # ""
           THEN <<"Error ", raw.data.code, ": ">> \o raw.data.msg
           ELSE raw.err
  ELSE IF raw.err # NoMsg THEN raw.err
  ELSE IF raw.data.error # NoMsg THEN raw.data.error
  ELSE IF raw.data.t # "str" THEN NoMsg
  ELSE IF Contains(raw.data.text, SecurityCheck) THEN CloudFlareMsg
  ELSE IF Contains(raw.data.text, TryAgain) THEN TryAgain
  ELSE IF Contains(raw.data.text, Doctype) THEN raw.data.text
  ELSE NoMsg

Signatures(a) == IF a = "poloniex" THEN recoverableErrors ELSE BinanceRecoverableErrors

\* the answer has neither an error nor a body
MissingBody(raw) == raw.err = NoMsg /\ raw.data.t = "undef"

\* the outcome the classification rule gives an answer to operation o
Expected(a, o, raw) ==
  LET m == MessageOf(a, raw)
  IN IF MissingBody(raw) THEN "retryable"
     ELSE IF m = NoMsg THEN "success"
     ELSE IF a = "poloniex" /\ o = "getOrder" /\ Contains(m, OrderNotFound)
       THEN "success"
     ELSE IF a = "poloniex" /\ o = "cancelOrder" /\ Contains(m, InvalidOrder)
       THEN "success"
     ELSE IF a = "poloniex" /\ o \in {"buy", "sell"} /\ Contains(m, ETIMEDOUT)
       THEN "ambiguous"
     ELSE IF \E sig \in Signatures(a) : Contains(m, sig) THEN "retryable"
     ELSE "fatal"

\* the outcome the first attempt had, as the run shows it
Outcome ==
  IF \E t \in BagToSet(tasks) : t.k = "reconTimer" THEN "ambiguous"
  ELSE IF BagIn(Timer, tasks) THEN "retryable"
  ELSE IF handled.n = 1 /\ handled.err.present THEN "fatal"
  ELSE IF handled.n = 1 THEN "success"
  ELSE "none"

\* C18: for every operation and every error or body, the answer is retried
\* exactly when its error message contains one of the adapter's recoverable
\* signatures and ends the run with the error otherwise, save for the
\* overrides of getOrder, cancelOrder and placement; a missing body is
\* retried.
C18_Classification ==
  lastRaw.any => Outcome = Expected(adapter, op, lastRaw)


\* the last answer is a body, received without error, that holds the text of
\* the challenge page
ChallengeAnswered ==
  /\ lastRaw.any
  /\ lastRaw.err = NoMsg
  /\ lastRaw.data.t = "str"
  /\ Contains(lastRaw.data.text, SecurityCheck)

\* C19: Poloniex: a body holding 'Please complete the security check to
\* proceed.' ends the run of any operation at once with an error that is not
\* retried and carries the CloudFlare reason; the page is handed neither to
\* the run's callback nor to the caller.
C19_ChallengeIsFatal ==
  (adapter = "poloniex" /\ ChallengeAnswered)
    => /\ handled.n = 1
       /\ handled.err.present
       /\ handled.err.msg = CloudFlareMsg
       /\ ~Retryable(handled.err)
       /\ handled.data = Undef
       /\ cb.n = 1
       /\ cb.err = handled.err
       /\ cb.val = NoValue
       /\ tasks = EmptyBag

\* C19 witness: a challenge page that also holds the recoverable signature
\* '503' answered a placement
C19_Witness ==
  /\ adapter = "poloniex" /\ op = "buy" /\ ChallengeAnswered
  /\ Contains(lastRaw.data.text, <<"5", "03">>)
  /\ handled.n = 1 /\ handled.err.msg = CloudFlareMsg


\* C20: whatever the exchange answers, no exception leaves the handling of a
\* response: every outcome reaches the caller through the callback.
C20_NeverThrows == ~crashed


\* the look-up requests that are out
LookupRequests(bag) == {t \in BagToSet(bag) : t.k = "lookupReq"}

RECURSIVE CountIn(_, _)
CountIn(bag, ts) ==
  IF ts = {} THEN 0
  ELSE LET t == CHOOSE x \in ts : TRUE IN CopiesIn(t, bag) + CountIn(bag, ts \ {t})

\* this step is the answer to a look-up
LookupAnswered ==
  CountIn(tasks', LookupRequests(tasks')) < CountIn(tasks, LookupRequests(tasks))

\* this step goes the way of 'no recent order': the placement's continuation
\* gets the placement's error, which is retried or handed to the callback
NoOrderPath == attempts' > attempts \/ handled'.n > handled.n

\* C21: the look-up runs under a bounded policy, and an answer to it that is
\* a failure never takes the placement the way an answer without a recent
\* order does: the placement's continuation is not invoked, the look-up is
\* retried or ends in its own error.
C21_LookupFailureKeptApart ==
  [][ /\ \A t \in BagToSet(tasks') :
           t.k \in {"lookupReq", "lookupTimer"} => t.n <= DefaultRetries
      /\ (LookupAnswered /\ lookup'.failed)
           => /\ ~NoOrderPath
              /\ cb' = cb
              /\ \/ crashed'
                 \/ \E t \in BagToSet(tasks') : t.k = "lookupTimer"
      /\ (LookupAnswered /\ ~lookup'.failed /\ lookup'.recent = 0)
           => NoOrderPath /\ ~crashed' ]_vars

\* C21 witness: a look-up was retried as often as the policy allows and
\* ended in an error
C21_Witness ==
  /\ Placement /\ lookup.answered /\ lookup.failed
  /\ crashed
  /\ cb.n = 0 /\ handled.n = 0


Abs(x) == IF x < 0 THEN -x ELSE x

Rounded == rounded.fn # "none"

\* C22 as stated: roundAmount and roundPrice never return a value further
\* from zero than their input.
C22_TowardZero == Rounded => Abs(rounded.r) <= Abs(rounded.x)

\* C22 amended: the result is never greater than the input and less than one
\* step of the tick's precision below it (floor); for an input >= 0 it is
\* >= 0 as well, so not further from zero.
C22_Floor ==
  Rounded
    => /\ rounded.r <= rounded.x
       /\ rounded.x - rounded.r < One \div Pow10(getPrecision(rounded.tick))
       /\ rounded.x >= 0 => rounded.r >= 0

\* C22 witness: Binance rounds 1.29 with tick 0.1 down to 1.2
C22_Witness ==
  /\ rounded.adapter = "binance" /\ rounded.fn = "roundAmount"
  /\ rounded.x = 129 /\ rounded.tick = 10 /\ rounded.r = 120

\* C23: roundAmount and roundPrice return a whole number of ticks, on
\* either adapter.
C23_NoFinerThanTick == Rounded => rounded.r % rounded.tick = 0


\* the running call and the one before it are the same query, both answered
\* with a result, by an exchange that held and reported the same state
SameQueryTwice ==
  /\ prev.n >= 1 /\ prev.op = op
  /\ cb.n >= 1 /\ ~cb.err.present /\ ~prev.cb.err.present
  /\ adapter = "binance" => lastRaw.data.status = prev.raw.data.status

\* C24: checkOrder or getOrder run twice for the same order, the exchange's
\* state unchanged, returns the same output both times, and the calls leave
\* the exchange's state as it was.
C24_Idempotent ==
  /\ prev.n >= 1 => orders = prev.orders
  /\ SameQueryTwice => cb.val = prev.cb.val

\* C24 witness: two checkOrder calls on Poloniex, answered by listings of two
\* open orders in different order
C24_Witness ==
  /\ SameQueryTwice /\ adapter = "poloniex" /\ op = "checkOrder"
  /\ Len(lastRaw.data.orders) = 2
  /\ lastRaw.data.orders # prev.raw.data.orders
  /\ cb.val.open

\* C26: one answer of the exchange invokes the continuation of the attempt it
\* belongs to at most once (it schedules one more attempt or ends the run,
\* once) and the caller's callback at most once; so after an empty look-up the
\* placement's continuation runs once.
C26_OncePerAttempt ==
  [][/\ (attempts' - attempts) + (handled'.n - handled.n) <= 1
     /\ cb'.n <= cb.n + 1]_vars

\* C27: the identifier buy or sell returns after a look-up is that of an order
\* the call's own placement requests created, never of an order that existed
\* before the call.
C27_OwnOrder ==
  (adapter = "poloniex" /\ Placement /\ lookup.answered /\ Succeeded)
    => /\ cb.val.id \in Ids
       /\ orders[cb.val.id].by = ncalls

\* the operations that read
ReadOps == {"getTrades", "getPortfolio", "checkOrder", "getOrder"}

\* C28: while a read operation runs, no request that places or cancels an
\* order is sent to the exchange.
C28_ReadsOnlyRead ==
  (op \in ReadOps /\ BagIn(Req, tasks))
    => Request(adapter, op) \notin {"placement", "cancel"}

\* C29: once nothing of a started operation is left to happen (no request
\* out, no timer pending), its caller's callback has been invoked.
C29_CallbackInvoked == (ncalls >= 1 /\ tasks = EmptyBag) => cb.n >= 1

\* C30: a checkOrder answered after cancelOrder ended with filled = false for
\* the same order reports executed = false.
C30_CancelledIsNotExecuted ==
  (/\ prev.n >= 1 /\ prev.op = "cancelOrder"
   /\ ~prev.cb.err.present /\ ~prev.cb.val.filled
   /\ op = "checkOrder" /\ Succeeded)
    => ~cb.val.executed

\* run i takes a step: something of it other than a new call changes
Steps(i) == i \in DOMAIN runs /\ runs'[i] # runs[i]

\* C25: of the operations in flight on one adapter, a step of one (an answer,
\* a backoff wait that ends, a retry) leaves the run of every other as it was:
\* its attempts, its pending timers and requests, its callback.
C25_RunsApart ==
  [][\A i \in DOMAIN runs : \A j \in DOMAIN runs :
       (i # j /\ Steps(i)) => runs'[j] = runs[j]]_vars

\* C31: a checkOrder that ended with a result, on either adapter, never
\* reports executed and open together, and carries a filledAmount exactly when
\* it reports the order open.
C31_CheckResultShape ==
  (op = "checkOrder" /\ Succeeded)
    => /\ ~(cb.val.executed /\ cb.val.open)
       /\ cb.val.hasFilledAmount <=> cb.val.open

\* C31 witness: Binance checkOrder answered NEW for an untouched order, after
\* a retry: open, not executed, filledAmount 0
C31_Witness ==
  /\ adapter = "binance" /\ op = "checkOrder" /\ Succeeded /\ attempts >= 2
  /\ lastRaw.data.status = "NEW"
  /\ cb.val.open /\ ~cb.val.executed
  /\ cb.val.hasFilledAmount /\ cb.val.filledAmount = 0

\* the last answer to a Binance checkOrder is an order with its status
StatusAnswered ==
  /\ adapter = "binance" /\ op = "checkOrder" /\ lastRaw.any
  /\ lastRaw.err = NoMsg /\ lastRaw.data.t = "obj" /\ lastRaw.data.code = ""

\* C32: Binance checkOrder, answered with an order's status, ends with
\* {executed: false, open: false} for CANCELED, REJECTED or EXPIRED, with
\* {executed: false, open: true, filledAmount: executedQty} for NEW or
\* PARTIALLY_FILLED, with {executed: true, open: false} for FILLED, and no
\* status the exchange reports is outside these.
C32_StatusMapping ==
  StatusAnswered
    => /\ Succeeded
       /\ lastRaw.data.status \in
            {"CANCELED", "REJECTED", "EXPIRED", "NEW", "PARTIALLY_FILLED", "FILLED"}
       /\ lastRaw.data.status \in {"CANCELED", "REJECTED", "EXPIRED"}
            => ~cb.val.executed /\ ~cb.val.open
       /\ lastRaw.data.status \in {"NEW", "PARTIALLY_FILLED"}
            => /\ ~cb.val.executed /\ cb.val.open
               /\ cb.val.filledAmount = lastRaw.data.executedQty
       /\ lastRaw.data.status = "FILLED" => cb.val.executed /\ ~cb.val.open

\* the last answer to a Binance cancelOrder rejects the cancel with msg
\* 'UNKNOWN_ORDER'
UnknownOrderAnswered ==
  /\ adapter = "binance" /\ op = "cancelOrder" /\ lastRaw.any
  /\ lastRaw.data.t = "obj" /\ lastRaw.data.code # ""
  /\ lastRaw.data.msg = <<"UNKNOWN_ORDER">>

\* C33: Binance cancelOrder: a rejection with msg 'UNKNOWN_ORDER' ends the
\* call once, with no error and the value true, and no further cancel request
\* is scheduled or sent; an error-free answer ends it with the value false.
C33_UnknownOrderIsFilled ==
  /\ UnknownOrderAnswered
       => /\ cb.n = 1 /\ ~cb.err.present /\ cb.val.filled
          /\ ~BagIn(Timer, tasks) /\ ~BagIn(Req, tasks)
  /\ (adapter = "binance" /\ op = "cancelOrder" /\ CancelSucceeded)
       => cb.n = 1 /\ ~cb.err.present /\ ~cb.val.filled

\* C33 witness: the first cancel request ended in a retryable error, the next
\* one is rejected with 'UNKNOWN_ORDER' and the call ends with true
C33_Witness ==
  /\ UnknownOrderAnswered /\ attempts = 2 /\ sent = 2
  /\ Succeeded /\ cb.val.filled /\ tasks = EmptyBag

\* the last answer to getPortfolio reports the balances of the account
BalancesAnswered ==
  /\ op = "getPortfolio" /\ lastRaw.any
  /\ lastRaw.err = NoMsg /\ lastRaw.data.t = "obj"
  /\ lastRaw.data.error = NoMsg /\ lastRaw.data.code = ""

\* the amount due for a reported balance: the number, 0 for what is no number
AmountOf(r) == IF r.k = "numeric" THEN r.v ELSE 0

\* C34: getPortfolio, answered with the balances, ends without an exception
\* with two entries, the asset then the currency, each with the free balance
\* reported for it, or 0 where that one balance is not a number.
C34_PortfolioEntries ==
  BalancesAnswered
    => /\ ~crashed
       /\ Succeeded
       /\ cb.val.portfolio =
            Portfolio(AmountOf(lastRaw.data.balances.asset),
                      AmountOf(lastRaw.data.balances.currency))

=============================================================================
